---- MODULE Spec2Model ----
(***************************************************************************)
(* Model of src/src/drawscape_factorio/create.py: the bounds calculator    *)
(* (get_entity_bounds), the canvas layout (calculate_canvas_and_viewbox),  *)
(* the grid generator (create_grid) and the assembling function create.    *)
(*                                                                         *)
(* Numbers.  Entity coordinates are integers.  Python's true division      *)
(* yields floats; here every quotient is an exact rational <<n, d>> with   *)
(* d > 0 in lowest terms, so the arithmetic is that of the source without  *)
(* IEEE-754 rounding.  Division by zero raises, as Python's does.          *)
(***************************************************************************)
EXTENDS Integers, Sequences, FiniteSets, TLC

\* ------------------------------------------------------------------ bounds
\* Largest number of entities in a generated entity collection.
MaxEntities == 2
\* Grid inputs: origins range over the halves in [-MaxOrigin, MaxOrigin],
\* extents over the halves in [0, MaxExtent].
MaxOrigin == 2
MaxExtent == 2

\* ------------------------------------------------------- program constants
A4Long == 297
A4Short == 210
padding_mm == 10

\* -------------------------------------------------------------- rationals
Abs(i) == IF i < 0 THEN -i ELSE i

RECURSIVE GCD(_, _)
GCD(a, b) == IF b = 0 THEN a ELSE GCD(b, a % b)

\* The rational n/d (d # 0) in lowest terms with a positive denominator.
Rat(n, d) ==
    LET g == GCD(Abs(n), Abs(d))
        s == IF d < 0 THEN -1 ELSE 1
    IN  <<(s * n) \div g, (s * d) \div g>>

R(i) == <<i, 1>>
RAdd(a, b) == Rat(a[1] * b[2] + b[1] * a[2], a[2] * b[2])
RSub(a, b) == Rat(a[1] * b[2] - b[1] * a[2], a[2] * b[2])
RMul(a, b) == Rat(a[1] * b[1], a[2] * b[2])
RLt(a, b) == a[1] * b[2] < b[1] * a[2]
RLe(a, b) == a[1] * b[2] <= b[1] * a[2]
RIsInt(a) == a[2] = 1
\* floor(a): the greatest integer <= a.
Floor(a) == a[1] \div a[2]

\* Python's a / b: raises ZeroDivisionError when b = 0.
PyDivZeroIsZero(a, b) ==
    IF b[1] = 0 THEN [raised |-> FALSE, val |-> R(0)]
    ELSE [raised |-> FALSE, val |-> Rat(a[1] * b[2], a[2] * b[1])]

PyDiv(a, b) ==
    IF b[1] = 0 THEN [raised |-> TRUE, val |-> R(0)]
    ELSE [raised |-> FALSE, val |-> Rat(a[1] * b[2], a[2] * b[1])]

\* Python's min(a, b) of two numbers.
PyMinIsMax(a, b) == IF RLt(b, a) THEN a ELSE b

PyMin(a, b) == IF RLt(b, a) THEN b ELSE a

\* Python's int(a): truncation toward zero.
PyInt(a) == IF a[1] >= 0 THEN a[1] \div a[2] ELSE -((-a[1]) \div a[2])

\* Python's range(lo, hi) as a sequence.
PyRange(lo, hi) == [i \in 1..(IF hi > lo THEN hi - lo ELSE 0) |-> lo + i - 1]

\* ------------------------------------------------------------- the inputs
None == [tag |-> "None"]

\* entity_types of create, in the dict's insertion order.
EntityTypesRailsFirst == <<"rails", "belts", "walls", "splitters", "asset", "spaceship">>

EntityTypes == <<"belts", "walls", "splitters", "asset", "spaceship", "rails">>

\* The keys of the parsed data: the rendered types and one that create does
\* not render.
DataCategories == EntityTypes \o <<"electrical">>

CategorySet == {DataCategories[i] : i \in 1..Len(DataCategories)}

\* Positions the generated entities are placed at.
Points == {<<-3, 0>>, <<0, 0>>, <<4, 0>>, <<0, 2>>, <<0, -5>>, <<4, 2>>}

EmptyData == [c \in CategorySet |-> <<>>]

RECURSIVE DataSets(_)
DataSets(n) ==
    IF n = 0 THEN {EmptyData}
    ELSE LET prev == DataSets(n - 1)
         IN  prev \cup
             {[d EXCEPT ![c] = Append(@, [x |-> p[1], y |-> p[2]])] :
                 d \in prev, c \in CategorySet, p \in Points}

Orientations == {"landscape", "portrait"}

\* ------------------------------------------------------ get_entity_bounds
RECURSIVE Flatten(_, _)
Flatten(d, i) ==
    IF i > Len(DataCategories) THEN <<>>
    ELSE d[DataCategories[i]] \o Flatten(d, i + 1)

AllEntitiesBeltsOnly(d) == d["belts"]

AllEntities(d) == Flatten(d, 1)

SeqMin(s) == CHOOSE m \in {s[i] : i \in 1..Len(s)} : \A j \in 1..Len(s) : m <= s[j]
SeqMax(s) == CHOOSE m \in {s[i] : i \in 1..Len(s)} : \A j \in 1..Len(s) : m >= s[j]

GetEntityBounds(d) ==
    LET all_entities == AllEntities(d)
        xs == [i \in 1..Len(all_entities) |-> all_entities[i].x]
        ys == [i \in 1..Len(all_entities) |-> all_entities[i].y]
    IN  IF Len(all_entities) = 0 THEN None
        ELSE [min_x |-> SeqMin(xs), max_x |-> SeqMax(xs),
              min_y |-> SeqMin(ys), max_y |-> SeqMax(ys)]

\* ------------------------------------------- calculate_canvas_and_viewbox
SvgWidthMm(o) == IF o = "landscape" THEN A4Long ELSE A4Short
SvgHeightMm(o) == IF o = "landscape" THEN A4Short ELSE A4Long

Raised(e, b) ==
    [exc |-> e, bounds |-> b, locals |-> None, svg |-> None, viewbox |-> None]

\* The call's outcome: the exception it raises ("none" when it returns), the
\* bounds it computed, its locals and its return values.
CalculateCanvasAndViewbox(d, o) ==
    LET svg_width_mm == SvgWidthMm(o)
        svg_height_mm == SvgHeightMm(o)
        content_width_mm == svg_width_mm - 2 * padding_mm
        content_height_mm == svg_height_mm - 2 * padding_mm
        b == GetEntityBounds(d)
    IN  IF b = None THEN Raised("TypeError", b)
        ELSE
        LET width == b.max_x - b.min_x
            height == b.max_y - b.min_y
            qw == PyDiv(R(content_width_mm), R(width))
            qh == PyDiv(R(content_height_mm), R(height))
        IN  IF qw.raised \/ qh.raised THEN Raised("ZeroDivisionError", b)
            ELSE
            LET scale == PyMin(qw.val, qh.val)
                scaled_width == RMul(R(width), scale)
                scaled_height == RMul(R(height), scale)
                x_offset == PyDiv(RSub(R(svg_width_mm), scaled_width), R(2)).val
                y_offset == PyDiv(RSub(R(svg_height_mm), scaled_height), R(2)).val
                vw == PyDiv(R(svg_width_mm), scale)
                vh == PyDiv(R(svg_height_mm), scale)
                dx == PyDiv(RSub(x_offset, R(padding_mm)), scale)
                dy == PyDiv(RSub(y_offset, R(padding_mm)), scale)
            IN  IF vw.raised \/ vh.raised \/ dx.raised \/ dy.raised
                THEN Raised("ZeroDivisionError", b)
                ELSE [exc |-> "none",
                      bounds |-> b,
                      locals |-> [width |-> width, height |-> height,
                                  scale |-> scale,
                                  scaled_width |-> scaled_width,
                                  scaled_height |-> scaled_height,
                                  x_offset |-> x_offset, y_offset |-> y_offset],
                      svg |-> [width_mm |-> svg_width_mm,
                               height_mm |-> svg_height_mm],
                      viewbox |-> [x |-> RSub(R(b.min_x), dx.val),
                                   y |-> RSub(R(b.min_y), dy.val),
                                   width |-> vw.val,
                                   height |-> vh.val]]

\* ------------------------------------------------------------ create_grid
\* The x of every vertical line and the y of every horizontal line, in the
\* order the lines are added to the grid group.
CreateGrid(vb) ==
    [vertical |-> PyRange(PyInt(vb.x), PyInt(RAdd(vb.x, vb.width)) + 1),
     horizontal |-> PyRange(PyInt(vb.y), PyInt(RAdd(vb.y, vb.height)) + 1)]

\* ------------------------------------------------------------------ state
VARIABLES
    data,           \* the parsed entity collection: category -> entities
    orientation,    \* the orientation the layout is computed for
    optimize,       \* create's optimize parameter
    pc,             \* the position in the running function
    exc,            \* the exception that ended the run, "none" while none has
    layoutInvoked,  \* calculate_canvas_and_viewbox has been entered
    bounds,         \* what get_entity_bounds returned (None before, and for no entities)
    locals,         \* calculate_canvas_and_viewbox's locals at its return
    svg,            \* the returned page size
    viewbox,        \* the returned viewbox (create_grid's arguments)
    groups,         \* ids of the groups added to the drawing, in order
    grid,           \* the lines of the grid group
    idx,            \* position of create's loop in entity_types
    fileExists,     \* the output file is on disk
    optInvoked,     \* optimize_svg has been called
    optimized_svg   \* what optimize_svg returned (truthy or falsy)

vars == <<data, orientation, optimize, pc, exc, layoutInvoked, bounds, locals,
          svg, viewbox, groups, grid, idx, fileExists, optInvoked, optimized_svg>>

NoGrid == [vertical |-> <<>>, horizontal |-> <<>>]

\* What every run starts from, its inputs apart.
Fresh ==
    /\ exc = "none"
    /\ layoutInvoked = FALSE
    /\ bounds = None
    /\ locals = None
    /\ svg = None
    /\ groups = <<>>
    /\ grid = NoGrid
    /\ idx = 1
    /\ fileExists = FALSE
    /\ optInvoked = FALSE
    /\ optimized_svg = FALSE

\* ----------------------------------------------------------------- create
\* A run of create(json_file_path, optimize) on parsed data.
Init ==
    /\ data \in DataSets(MaxEntities)
    /\ optimize \in BOOLEAN
    /\ orientation = "landscape"
    /\ viewbox = None
    /\ pc = "start"
    /\ Fresh

\* Line 41: the layout is computed from the data; either exception ends create.
CreateLayout ==
    /\ pc = "start"
    /\ LET r == CalculateCanvasAndViewbox(data, "landscape")
       IN  /\ layoutInvoked' = TRUE
           /\ bounds' = r.bounds
           /\ exc' = r.exc
           /\ locals' = r.locals
           /\ svg' = r.svg
           /\ viewbox' = r.viewbox
           /\ pc' = IF r.exc = "none" THEN "grid" ELSE "raised"
    /\ UNCHANGED <<data, orientation, optimize, groups, grid, idx, fileExists,
                   optInvoked, optimized_svg>>

\* Line 52: create_grid fills the grid group and adds it to the drawing.
CreateGridStep ==
    /\ pc = "grid"
    /\ grid' = CreateGrid(viewbox)
    /\ groups' = Append(groups, "grid")
    /\ pc' = "render"
    /\ UNCHANGED <<data, orientation, optimize, exc, layoutInvoked, bounds,
                   locals, svg, viewbox, idx, fileExists, optInvoked,
                   optimized_svg>>

\* Line 72: a group is added when its category has entities.
AddsGroup(entities) == Len(entities) > 0

\* Lines 67-73: one iteration of the loop over entity_types.
RenderCategory ==
    /\ pc = "render"
    /\ idx <= Len(EntityTypes)
    /\ LET entity_type == EntityTypes[idx]
           entities == data[entity_type]
       IN  groups' = IF AddsGroup(entities) THEN Append(groups, entity_type)
                     ELSE groups
    /\ idx' = idx + 1
    /\ UNCHANGED <<data, orientation, optimize, pc, exc, layoutInvoked, bounds,
                   locals, svg, viewbox, grid, fileExists, optInvoked,
                   optimized_svg>>

\* Line 76: dwg.save() writes the output file.
Save ==
    /\ pc = "render"
    /\ idx > Len(EntityTypes)
    /\ fileExists' = TRUE
    /\ pc' = "saved"
    /\ UNCHANGED <<data, orientation, optimize, exc, layoutInvoked, bounds,
                   locals, svg, viewbox, groups, grid, idx, optInvoked,
                   optimized_svg>>

\* Lines 86-88: with optimize set the optimizer runs and reports its result.
Optimize ==
    /\ pc = "saved"
    /\ optimize
    /\ optInvoked' = TRUE
    /\ \E r \in BOOLEAN : optimized_svg' = r
    /\ pc' = "optimized"
    /\ UNCHANGED <<data, orientation, optimize, exc, layoutInvoked, bounds,
                   locals, svg, viewbox, groups, grid, idx, fileExists>>

\* Line 90: the original is removed when the optimizer's result is truthy.
RemovesOriginalAlways(result) == TRUE

RemovesOriginal(result) == result

\* Lines 91-93.
RemoveOriginal ==
    /\ pc = "optimized"
    /\ RemovesOriginal(optimized_svg)
    /\ fileExists' = FALSE
    /\ pc' = "done"
    /\ UNCHANGED <<data, orientation, optimize, exc, layoutInvoked, bounds,
                   locals, svg, viewbox, groups, grid, idx, optInvoked,
                   optimized_svg>>

\* Lines 94-95.
RetainOriginal ==
    /\ pc = "optimized"
    /\ ~RemovesOriginal(optimized_svg)
    /\ pc' = "done"
    /\ UNCHANGED <<data, orientation, optimize, exc, layoutInvoked, bounds,
                   locals, svg, viewbox, groups, grid, idx, fileExists,
                   optInvoked, optimized_svg>>

\* Lines 96-97.
NoOptimize ==
    /\ pc = "saved"
    /\ ~optimize
    /\ pc' = "done"
    /\ UNCHANGED <<data, orientation, optimize, exc, layoutInvoked, bounds,
                   locals, svg, viewbox, groups, grid, idx, fileExists,
                   optInvoked, optimized_svg>>

Next ==
    \/ CreateLayout
    \/ CreateGridStep
    \/ RenderCategory
    \/ Save
    \/ Optimize
    \/ RemoveOriginal
    \/ RetainOriginal
    \/ NoOptimize

Spec == Init /\ [][Next]_vars

\* ------------------------------------------ calculate_canvas_and_viewbox
\* A call calculate_canvas_and_viewbox(data, orientation).
InitLayout ==
    /\ data \in DataSets(MaxEntities)
    /\ orientation \in Orientations
    /\ optimize = FALSE
    /\ viewbox = None
    /\ pc = "call_layout"
    /\ Fresh

LayoutCall ==
    /\ pc = "call_layout"
    /\ LET r == CalculateCanvasAndViewbox(data, orientation)
       IN  /\ layoutInvoked' = TRUE
           /\ bounds' = r.bounds
           /\ exc' = r.exc
           /\ locals' = r.locals
           /\ svg' = r.svg
           /\ viewbox' = r.viewbox
           /\ pc' = IF r.exc = "none" THEN "returned" ELSE "raised"
    /\ UNCHANGED <<data, orientation, optimize, groups, grid, idx, fileExists,
                   optInvoked, optimized_svg>>

NextLayout == LayoutCall

SpecLayout == InitLayout /\ [][NextLayout]_vars

\* ------------------------------------------------------------ create_grid
\* The halves k/2 with lo <= k/2 <= hi.
Halves(lo, hi) == {Rat(k, 2) : k \in (2 * lo)..(2 * hi)}

\* A call create_grid(dwg, viewbox_x, viewbox_y, viewbox_width, viewbox_height)
\* on a new drawing.
InitGrid ==
    /\ data = EmptyData
    /\ orientation = "landscape"
    /\ optimize = FALSE
    /\ viewbox \in [x : Halves(-MaxOrigin, MaxOrigin),
                    y : Halves(-MaxOrigin, MaxOrigin),
                    width : Halves(0, MaxExtent),
                    height : Halves(0, MaxExtent)]
    /\ pc = "call_grid"
    /\ Fresh

GridCall ==
    /\ pc = "call_grid"
    /\ grid' = CreateGrid(viewbox)
    /\ groups' = Append(groups, "grid")
    /\ pc' = "returned"
    /\ UNCHANGED <<data, orientation, optimize, exc, layoutInvoked, bounds,
                   locals, svg, viewbox, idx, fileExists, optInvoked,
                   optimized_svg>>

NextGrid == GridCall

SpecGrid == InitGrid /\ [][NextGrid]_vars

\* ----------------------------------------------------------------- claims
\* Every entity of the collection, whatever its category.
Entities == UNION {{data[c][i] : i \in 1..Len(data[c])} : c \in CategorySet}

AllCategoriesEmpty == \A c \in CategorySet : data[c] = <<>>
SharedX == \A e, f \in Entities : e.x = f.x
SharedY == \A e, f \in Entities : e.y = f.y

\* a / b for b # 0.
RQuot(a, b) == Rat(a[1] * b[2], a[2] * b[1])

\* C1: with every category empty the layout is never invoked, no viewbox is
\* produced, and the failure create ends with is EmptyDataset.
C1_EmptyFailsBeforeLayout ==
    AllCategoriesEmpty =>
        /\ ~layoutInvoked
        /\ viewbox = None
        /\ (pc = "raised" => exc = "EmptyDataset")

\* C2: for a non-empty collection whose entities share one x or share one y,
\* in either orientation, the layout ends in the zero-division error of the
\* scale computation and returns neither a page size nor a viewbox.
C2_DegenerateRaises ==
    (pc # "call_layout" /\ Entities # {} /\ (SharedX \/ SharedY)) =>
        /\ pc = "raised"
        /\ exc = "ZeroDivisionError"
        /\ viewbox = None
        /\ svg = None

C2_Witness ==
    /\ pc = "raised"
    /\ orientation = "portrait"
    /\ Cardinality(Entities) = 2
    /\ SharedX
    /\ ~SharedY

\* C3: once saved, the output file is missing only if optimize was set and the
\* optimizer was invoked and reported success; when create finishes with
\* optimize unset or the optimizer having failed, the file exists.
C3_DeletedOnlyAfterSuccess ==
    /\ (pc \in {"saved", "optimized", "done"} /\ ~fileExists) =>
           (optimize /\ optInvoked /\ optimized_svg)
    /\ (pc = "done" /\ (~optimize \/ ~optimized_svg)) => fileExists

C3_Witness ==
    /\ pc = "done"
    /\ optimize
    /\ optInvoked
    /\ ~optimized_svg
    /\ fileExists

\* C4: the groups of the drawing are, in this order, the grid and then the
\* categories belts, walls, splitters, asset, spaceship, rails that have at
\* least one entity; while create runs the groups added so far are a prefix
\* of that sequence.
C4_Order == <<"belts", "walls", "splitters", "asset", "spaceship", "rails">>
C4_HasEntities(c) == Len(data[c]) > 0
C4_Expected == <<"grid">> \o SelectSeq(C4_Order, C4_HasEntities)

C4_GroupOrder ==
    /\ Len(groups) <= Len(C4_Expected)
    /\ groups = SubSeq(C4_Expected, 1, Len(groups))
    /\ pc \in {"saved", "optimized", "done"} => groups = C4_Expected

C4_Witness ==
    /\ pc = "done"
    /\ Len(groups) = 3
    /\ data["belts"] = <<>>
    /\ data["rails"] # <<>>

\* C5: for a non-empty collection the bounds are a rectangle that contains
\* every entity of every category, each of its four sides attained by some
\* entity.
C5_BoundsContainAll ==
    (pc # "call_layout" /\ Entities # {}) =>
        /\ bounds # None
        /\ \A e \in Entities :
               /\ bounds.min_x <= e.x /\ e.x <= bounds.max_x
               /\ bounds.min_y <= e.y /\ e.y <= bounds.max_y
        /\ \E e \in Entities : e.x = bounds.min_x
        /\ \E e \in Entities : e.x = bounds.max_x
        /\ \E e \in Entities : e.y = bounds.min_y
        /\ \E e \in Entities : e.y = bounds.max_y
        /\ bounds.max_x >= bounds.min_x
        /\ bounds.max_y >= bounds.min_y

C5_Witness ==
    /\ pc = "returned"
    /\ data["belts"] = <<>>
    /\ Cardinality({c \in CategorySet : data[c] # <<>>}) = 2
    /\ bounds.min_x < bounds.max_x
    /\ bounds.min_y < bounds.max_y

\* C6: the viewbox shrunk by padding/scale on each side contains the bounding
\* rectangle.
C6_ContentRegionContainsBounds ==
    pc = "returned" =>
        LET pad == RQuot(R(10), locals.scale)
            lo_x == RAdd(viewbox.x, pad)
            hi_x == RSub(RAdd(viewbox.x, viewbox.width), pad)
            lo_y == RAdd(viewbox.y, pad)
            hi_y == RSub(RAdd(viewbox.y, viewbox.height), pad)
        IN  /\ RLe(lo_x, R(bounds.min_x)) /\ RLe(R(bounds.max_x), hi_x)
            /\ RLe(lo_y, R(bounds.min_y)) /\ RLe(R(bounds.max_y), hi_y)

\* C7: for a viewbox of integer width W and height H the grid has exactly
\* W + 1 vertical and H + 1 horizontal lines, wherever its origin is.
C7_GridLineCount ==
    (pc = "returned" /\ RIsInt(viewbox.width) /\ RIsInt(viewbox.height)) =>
        /\ Len(grid.vertical) = viewbox.width[1] + 1
        /\ Len(grid.horizontal) = viewbox.height[1] + 1

\* C8: on both axes the margin between the viewbox's low edge and bounds.min
\* equals the margin between bounds.max and the viewbox's high edge, each is
\* offset/scale, and the offset is at least the 10mm padding.
C8_CenteredOnPage ==
    pc = "returned" =>
        LET low_x == RSub(R(bounds.min_x), viewbox.x)
            high_x == RSub(RAdd(viewbox.x, viewbox.width), R(bounds.max_x))
            low_y == RSub(R(bounds.min_y), viewbox.y)
            high_y == RSub(RAdd(viewbox.y, viewbox.height), R(bounds.max_y))
        IN  /\ low_x = high_x
            /\ low_x = RQuot(locals.x_offset, locals.scale)
            /\ low_y = high_y
            /\ low_y = RQuot(locals.y_offset, locals.scale)
            /\ RLe(R(10), locals.x_offset)
            /\ RLe(R(10), locals.y_offset)

\* C9: the vertical lines are exactly the integers from floor(viewbox_x) to
\* floor(viewbox_x + viewbox_width), one line each, and the horizontal lines
\* those from floor(viewbox_y) to floor(viewbox_y + viewbox_height).
C9_Lines(s) == {s[i] : i \in 1..Len(s)}

C9_GridLinesAtFloors ==
    pc = "returned" =>
        LET xs == Floor(viewbox.x)..Floor(RAdd(viewbox.x, viewbox.width))
            ys == Floor(viewbox.y)..Floor(RAdd(viewbox.y, viewbox.height))
        IN  /\ C9_Lines(grid.vertical) = xs
            /\ Len(grid.vertical) = Cardinality(xs)
            /\ C9_Lines(grid.horizontal) = ys
            /\ Len(grid.horizontal) = Cardinality(ys)

====
